---------------------------- MODULE Spec2Model ----------------------------
(***************************************************************************)
(* Cache-aside hierarchy subsystem of the Express + MySQL + Redis service. *)
(*                                                                         *)
(* The state is the two MySQL tables (`group`, person), the Redis key      *)
(* space, the commands the three ioredis clients have issued and Redis has *)
(* not executed yet, and the position of every request handler that is     *)
(* running.  A handler is cut at its awaits: each MySQL statement and each *)
(* awaited Redis command is one step, and the synchronous code that        *)
(* follows an await belongs to the step of that await.  Redis commands     *)
(* that the code does not await (setex, del, the KEYS/DEL pair of          *)
(* clearKeysStartingWith) stay in the client's queue after the handler has *)
(* gone on.                                                                *)
(*                                                                         *)
(* Store contract assumed (the schema is not part of the sources): ids are *)
(* AUTO_INCREMENT, there are no referential actions (a deleted group       *)
(* leaves the parentGroupId/groupId that point at it dangling), and a      *)
(* SELECT without ORDER BY returns rows in primary-key order.  Requests    *)
(* name only ids the store has already issued.                             *)
(***************************************************************************)
EXTENDS Integers, Sequences, FiniteSets, TLC

(***************************************************************************)
(* Bounds of the model.                                                    *)
(***************************************************************************)
MaxGroups == 2      \* ids the `group` table may issue
MaxPersons == 1     \* ids the person table may issue
MaxInFlight == 2    \* handlers that may run at the same time
MaxRequests == 4    \* requests one behaviour of Spec may start
MaxCacheRequests == 3   \* requests one behaviour of SpecCache may start
MaxWriterRequests == 5  \* requests one behaviour of SpecWriters may start
MaxSuccessiveRequests == 3  \* requests one behaviour of SpecSuccessive may start
MaxColdRequests == 4    \* requests one behaviour of SpecCold may start
MaxPersonRequests == 4  \* requests one behaviour of SpecPersons may start
MaxRaceRequests == 4    \* requests one behaviour of SpecRace may start
MaxTraversalRequests == 3  \* requests one behaviour of SpecTraversal may start
MaxReparentRequests == 5  \* requests one behaviour of SpecReparent may start
MaxStoredRequests == 3  \* requests one behaviour of SpecStored may start
MaxDepth == 3      \* recursion depth a traversal may reach

(***************************************************************************)
(* JavaScript values.  null and undefined of an id-valued field are the    *)
(* integers 0 and -1 (Number(null) is 0, and no row has id 0); the         *)
(* undefined of a string-valued field is the empty string, which the       *)
(* handlers' truthiness tests treat the same way.                          *)
(***************************************************************************)
Null == 0
Undefined == 0 - 1
NoString == ""

DEFAULT_EXPIRATION == 3600

GroupIds == 1..MaxGroups
PersonIds == 1..MaxPersons
GroupNames == {"Root", "Child"}
JobTitles == {"eng", "ops"}
FirstNames == {"Al"}
LastNames == {"Li"}

\* The filterCriteria getGroups builds from its query: jobTitle, then firstName.
Criteria(k, v) == [k |-> k, v |-> v]
FilterCriterias == {<<>>, <<Criteria("jobTitle", "eng")>>}

(***************************************************************************)
(* Strings that are used as Redis keys are sequences of characters, so     *)
(* that `${prefix}*` is a real prefix test.                                *)
(***************************************************************************)
Digits == <<"0", "1", "2", "3", "4", "5", "6", "7", "8", "9">>

RECURSIVE Decimal(_)
Decimal(n) ==
    IF n < 10 THEN <<Digits[n + 1]>>
    ELSE Decimal(n \div 10) \o <<Digits[(n % 10) + 1]>>

Chars(s) ==
    CASE s = "eng" -> <<"e", "n", "g">>
      [] s = "ops" -> <<"o", "p", "s">>
      [] s = "Al" -> <<"A", "l">>
      [] s = "jobTitle" -> <<"j", "o", "b", "T", "i", "t", "l", "e">>
      [] s = "firstName" -> <<"f", "i", "r", "s", "t", "N", "a", "m", "e">>

RECURSIVE Join(_, _)
Join(strs, sep) ==
    IF strs = <<>> THEN <<>>
    ELSE IF Len(strs) = 1 THEN strs[1]
    ELSE strs[1] \o sep \o Join(Tail(strs), sep)

\* JSON.stringify of one FilterCriteria object, e.g. {"jobTitle":"eng"}
StringifyCriteria(c) ==
    <<"{", "\"">> \o Chars(c.k) \o <<"\"", ":", "\"">> \o Chars(c.v) \o <<"\"", "}">>

\* JSON.stringify of the FilterCriteria array
StringifyFilter(filterCriteria) ==
    <<"[">>
    \o Join([i \in 1..Len(filterCriteria) |-> StringifyCriteria(filterCriteria[i])], <<",">>)
    \o <<"]">>

person_id_ == <<"p", "e", "r", "s", "o", "n", "_", "i", "d", "_">>
all_persons == <<"a", "l", "l", "_", "p", "e", "r", "s", "o", "n", "s">>
all_groups == <<"a", "l", "l", "_", "g", "r", "o", "u", "p", "s">>
group_above_ == <<"g", "r", "o", "u", "p", "_", "a", "b", "o", "v", "e", "_">>
groups_above_ == <<"g", "r", "o", "u", "p", "s", "_", "a", "b", "o", "v", "e", "_">>
groups_below_ == <<"g", "r", "o", "u", "p", "s", "_", "b", "e", "l", "o", "w", "_">>

PersonKey(id) == person_id_ \o Decimal(id)
AboveKey(groupId) == group_above_ \o Decimal(groupId) \o <<"}">>
BelowKey(groupId, filterCriteria) ==
    groups_below_ \o Decimal(groupId) \o <<"_">> \o StringifyFilter(filterCriteria)

StartsWith(key, prefix) ==
    /\ Len(key) >= Len(prefix)
    /\ SubSeq(key, 1, Len(prefix)) = prefix

\* What JSON makes of a value.  A row of `SELECT *` on `group` carries
\* updatedAt as a Date, which JSON.stringify writes as its ISO string; every
\* other value the handlers serialise (numbers, strings, null, arrays and
\* objects of them) is written as it is.
JsonRow(row) ==
    IF "updatedAt" \in DOMAIN row /\ "date" \in DOMAIN row.updatedAt
    THEN [row EXCEPT !.updatedAt = [iso |-> @.date]]
    ELSE row

Jsonify(v) ==
    IF "rows" \in DOMAIN v
    THEN [rows |-> [i \in DOMAIN v.rows |-> JsonRow(v.rows[i])]]
    ELSE v

\* The value Redis holds is the JSON text; JSONparse gives back what the text
\* says, which is not the value that was serialised where that held a Date.
JSONstringify(v) == [json |-> Jsonify(v)]
JSONparse(text) == text.json

VARIABLES
    group,          \* the `group` table: id -> row
    person,         \* the person table: id -> row
    nextGroupId,    \* AUTO_INCREMENT of `group`
    nextPersonId,   \* AUTO_INCREMENT of person
    redis,          \* the Redis key space: key -> [text, ex]
    helperQ,        \* commands of the redis_helpers client not executed yet
    ctrlQ,          \* DELs of the two controllers' clients not executed yet
    req,            \* the handler running in each slot
    started         \* requests started so far; also the clock of CURRENT_TIMESTAMP

vars == <<group, person, nextGroupId, nextPersonId, redis, helperQ, ctrlQ, req, started>>

\* The ids a request for a person may carry: the ones the table may issue and
\* the ones of the rows it holds.
RequestPersonIds == PersonIds \cup DOMAIN person

(***************************************************************************)
(* The tables and the statements the handlers run on them.                 *)
(***************************************************************************)
RECURSIVE Ascending(_)
Ascending(S) ==
    IF S = {} THEN <<>>
    ELSE LET m == CHOOSE x \in S : \A y \in S : x <= y
         IN <<m>> \o Ascending(S \ {m})

\* SELECT ... FROM `group` WHERE id = ?
SelectGroupById(g, id) == IF id \in DOMAIN g THEN <<g[id]>> ELSE <<>>

\* SELECT ... FROM person WHERE id = ?
SelectPersonById(p, id) == IF id \in DOMAIN p THEN <<p[id]>> ELSE <<>>

\* SELECT * FROM `group` / SELECT * FROM person
SelectAll(t) == [i \in 1..Cardinality(DOMAIN t) |-> t[Ascending(DOMAIN t)[i]]]

\* SELECT id, groupName FROM `group` WHERE parentGroupId = ?
SelectChildGroups(g, groupId) ==
    LET ids == Ascending({c \in DOMAIN g : g[c].parentGroupId = groupId})
    IN [i \in 1..Len(ids) |-> [id |-> ids[i], groupName |-> g[ids[i]].groupName]]

\* A query that pushes no condition for the criteria: the behaviour C13 rules
\* out.
MatchesFilterIgnored(row, filterCriteria) == row.id \in PersonIds

\* The conditions the forEach over filterCriteria pushes, as one predicate.
MatchesFilter(row, filterCriteria) ==
    \A i \in 1..Len(filterCriteria) :
        /\ filterCriteria[i].k = "jobTitle" => row.jobTitle = filterCriteria[i].v
        /\ filterCriteria[i].k = "firstName" => row.firstName = filterCriteria[i].v

\* SELECT id, firstName, lastName, jobTitle, groupId FROM person
\*   WHERE groupId = ? AND <conditions>, and the projection pushed into persons
SelectPersonsOfGroup(p, groupId, filterCriteria) ==
    LET ids == Ascending({i \in DOMAIN p :
                   /\ p[i].groupId = groupId
                   /\ MatchesFilter(p[i], filterCriteria)})
    IN [i \in 1..Len(ids) |->
           [id |-> ids[i], firstName |-> p[ids[i]].firstName,
            lastName |-> p[ids[i]].lastName, jobTitle |-> p[ids[i]].jobTitle]]

\* WITH RECURSIVE Descendants ...: the ids below (and including) groupId.  On
\* a cyclic parent relation the recursion never empties and MySQL aborts the
\* statement (cte_max_recursion_depth), which the driver reports as an error.
RECURSIVE DescendantsFrom(_, _, _)
DescendantsFrom(g, frontier, seen) ==
    IF frontier = {} THEN [aborted |-> FALSE, ids |-> seen]
    ELSE LET kids == {c \in DOMAIN g : g[c].parentGroupId \in frontier}
         IN IF kids \cap (seen \cup frontier) # {}
            THEN [aborted |-> TRUE, ids |-> {}]
            ELSE DescendantsFrom(g, kids, seen \cup frontier)

DescendantQuery(g, groupId) == DescendantsFrom(g, {groupId} \cap DOMAIN g, {})

Remove(t, id) == [i \in DOMAIN t \ {id} |-> t[i]]

\* UPDATE `group` SET updatedAt = CURRENT_TIMESTAMP WHERE id = ?
TouchGroup(g, id, now) ==
    IF id \in DOMAIN g THEN [g EXCEPT ![id].updatedAt = [date |-> now]] ELSE g

(***************************************************************************)
(* Redis commands, as Redis executes them.                                 *)
(***************************************************************************)
RedisGet(kv, key) == IF key \in DOMAIN kv THEN <<kv[key].text>> ELSE <<>>

RedisSetex(kv, key, seconds, text) ==
    [k \in DOMAIN kv \cup {key} |->
        IF k = key THEN [text |-> text, ex |-> seconds] ELSE kv[k]]

RedisKeys(kv, prefix) == {k \in DOMAIN kv : StartsWith(k, prefix)}

RedisDel(kv, keys) == [k \in DOMAIN kv \ keys |-> kv[k]]

GetCmd(r, key) == [cmd |-> "get", r |-> r, key |-> key]
SetexCmd(key, text) == [cmd |-> "setex", key |-> key, ex |-> DEFAULT_EXPIRATION, text |-> text]
KeysCmd(prefix) == [cmd |-> "keys", prefix |-> prefix]
DelCmd(keys) == [cmd |-> "del", keys |-> keys]

(***************************************************************************)
(* Requests.                                                               *)
(***************************************************************************)
Slots == 1..MaxInFlight
Idle == [op |-> "idle", pc |-> "idle"]
Running(r) == req[r].pc \notin {"idle", "done"}

Init ==
    /\ group = <<>>
    /\ person = <<>>
    /\ nextGroupId = 1
    /\ nextPersonId = 1
    /\ redis = <<>>
    /\ helperQ = <<>>
    /\ ctrlQ = [persons |-> 0, groups |-> 0]
    /\ req = [r \in Slots |-> Idle]
    /\ started = 0

Quiescent == helperQ = <<>> /\ ctrlQ.persons = 0 /\ ctrlQ.groups = 0

\* A request is admitted into the lowest free slot, while the behaviour's
\* budget of requests lasts.
Admit(r, budget) ==
    /\ started < budget
    /\ ~Running(r)
    /\ \A q \in Slots : q < r => Running(q)

\* It is admitted only when every earlier request, its invalidation included,
\* has run to completion.
Sequential(r, budget) ==
    /\ Admit(r, budget)
    /\ Quiescent
    /\ \A q \in Slots : ~Running(q)

Begin(r, op, pc, arg, stack, cmds) ==
    /\ started' = started + 1
    /\ req' = [req EXCEPT ![r] = [op |-> op, pc |-> pc, arg |-> arg, stack |-> stack]]
    /\ helperQ' = helperQ \o cmds

\* res.status(status).json(body): the body goes out as JSON, and the handler
\* is over.
Respond(q, status, body) ==
    [op |-> q.op, pc |-> "done", arg |-> q.arg,
     res |-> [status |-> status, body |-> Jsonify(body)]]

Top(stack) == stack[Len(stack)]
Pop(stack) == SubSeq(stack, 1, Len(stack) - 1)
SetTop(stack, f) == [stack EXCEPT ![Len(stack)] = f]

\* One getOrSetCache call that has not settled: its key, where its callback
\* stands (st), and the callback's locals.
Frame(key, groupId, v) ==
    [key |-> key, st |-> "get", groupId |-> groupId, v |-> v, todo |-> <<>>]

NoLocals == [none |-> TRUE]
NewGroup(groupId) == [id |-> groupId, groupName |-> "", persons |-> <<>>, groups |-> <<>>]
\* { error: `Group with ID ${groupId} not found` }
NotFound(groupId) == [error |-> [text |-> "Group with ID ... not found", id |-> groupId]]
ErrorBody(text) == [error |-> [text |-> text]]
Message(text) == [message |-> text]
Rows(rows) == [rows |-> rows]
IsError(v) == "error" \in DOMAIN v

\* fetchGroupHierarchyBelow(groupId, filterCriteria) up to its redisClient.get
BelowCall(groupId, filterCriteria) ==
    Frame(BelowKey(groupId, filterCriteria), groupId, NewGroup(groupId))

(***************************************************************************)
(* What the caller of a getOrSetCache call does with the value the call    *)
(* resolved to.  The caller is either the route handler (no frame left) or *)
(* the for loop of fetchGroupHierarchyBelow one level up, which returns    *)
(* the error, or pushes the child and goes on to the next child, or        *)
(* returns the group; a callback that returns makes its own getOrSetCache  *)
(* issue setex and resolve in turn.                                        *)
(***************************************************************************)
\* A for loop that pushes a child whose call returned an error as an empty
\* group and goes on: the behaviour C18 rules out.
RECURSIVE ResolveSkippingError(_, _, _, _, _)
ResolveSkippingError(r, filterCriteria, stack, value, cmds) ==
    IF stack = <<>>
    THEN [settled |-> TRUE, stack |-> <<>>, value |-> value, cmds |-> cmds]
    ELSE LET f == Top(stack)
             childGroupRow == Head(f.todo)
             grown == [f.v EXCEPT !.groups = Append(@,
                          [id |-> childGroupRow.id,
                           groupName |-> childGroupRow.groupName,
                           persons |-> IF IsError(value) THEN <<>> ELSE value.persons,
                           groups |-> IF IsError(value) THEN <<>> ELSE value.groups])]
         IN IF Tail(f.todo) = <<>>
            THEN ResolveSkippingError(r, filterCriteria, Pop(stack), grown,
                         Append(cmds, SetexCmd(f.key, JSONstringify(grown))))
            ELSE LET next == BelowCall(Head(Tail(f.todo)).id, filterCriteria)
                 IN [settled |-> FALSE,
                     stack |-> Append(SetTop(stack, [f EXCEPT !.v = grown, !.todo = Tail(@)]), next),
                     value |-> value,
                     cmds |-> Append(cmds, GetCmd(r, next.key))]

RECURSIVE Resolve(_, _, _, _, _)
Resolve(r, filterCriteria, stack, value, cmds) ==
    IF stack = <<>>
    THEN [settled |-> TRUE, stack |-> <<>>, value |-> value, cmds |-> cmds]
    ELSE LET f == Top(stack)
             childGroupRow == Head(f.todo)
             grown == [f.v EXCEPT !.groups = Append(@,
                          [id |-> childGroupRow.id,
                           groupName |-> childGroupRow.groupName,
                           persons |-> value.persons,
                           groups |-> value.groups])]
         IN IF IsError(value)
            THEN Resolve(r, filterCriteria, Pop(stack), value,
                         Append(cmds, SetexCmd(f.key, JSONstringify(value))))
            ELSE IF Tail(f.todo) = <<>>
            THEN Resolve(r, filterCriteria, Pop(stack), grown,
                         Append(cmds, SetexCmd(f.key, JSONstringify(grown))))
            ELSE LET next == BelowCall(Head(Tail(f.todo)).id, filterCriteria)
                 IN [settled |-> FALSE,
                     stack |-> Append(SetTop(stack, [f EXCEPT !.v = grown, !.todo = Tail(@)]), next),
                     value |-> value,
                     cmds |-> Append(cmds, GetCmd(r, next.key))]

\* The route handler's use of the value its getOrSetCache call resolved to.
HandlerThen(q, value) ==
    IF q.op = "getGroups" /\ q.arg.id # Undefined /\ IsError(value)
    THEN Respond(q, 404, value)
    ELSE Respond(q, 200, value)

\* throw error: getGroupsAbove, the caller of fetchGroupHierarchyAbove, sends
\* no response when the call rejects (status 0 stands for none).
Rethrow(q) ==
    [op |-> q.op, pc |-> "done", arg |-> q.arg,
     res |-> [status |-> 0, body |-> [thrown |-> TRUE]]]

\* The catch block of the handler.
HandlerCatch(q) ==
    IF q.op = "fetchGroupHierarchyAbove" THEN Rethrow(q)
    ELSE IF q.op = "getGroups" /\ q.arg.id = Undefined
    THEN Respond(q, 500, ErrorBody("Internal server error."))
    ELSE Respond(q, 500, ErrorBody("Internal server error"))

Settle(r, queue, d) ==
    /\ helperQ' = queue \o d.cmds
    /\ req' = [req EXCEPT ![r] =
                 IF d.settled THEN HandlerThen(req[r], d.value)
                 ELSE [@ EXCEPT !.stack = d.stack]]

Filter(q) == IF q.op = "getGroups" THEN q.arg.filterCriteria ELSE <<>>

\* A getOrSetCache that resolves with freshData and issues no setex for it:
\* the behaviour C11 rules out.
CacheFreshUnstored(r, freshData) ==
    Settle(r, helperQ,
           Resolve(r, Filter(req[r]), Pop(req[r].stack), freshData, <<>>))

\* The callback of the innermost call returned freshData: setex is issued
\* (and not awaited) and the call resolves.
CacheFresh(r, freshData) ==
    LET stack == req[r].stack
    IN Settle(r, helperQ,
              Resolve(r, Filter(req[r]), Pop(stack), freshData,
                      <<SetexCmd(Top(stack).key, JSONstringify(freshData))>>))

\* A catch that leaves the error in the cache under the key of the call: the
\* behaviour C6 rules out.
CacheRejectStoringError(r) ==
    /\ req' = [req EXCEPT ![r] = HandlerCatch(req[r])]
    /\ helperQ' = Append(helperQ,
                         SetexCmd(Top(req[r].stack).key,
                                  JSONstringify(ErrorBody("Internal server error"))))

\* The callback threw, or a statement of it failed: every enclosing call
\* rejects and the handler's catch answers.
CacheReject(r) ==
    /\ req' = [req EXCEPT ![r] = HandlerCatch(req[r])]
    /\ UNCHANGED helperQ

InCallback(r, op, st) ==
    /\ Running(r)
    /\ req[r].op = op
    /\ req[r].pc = "cache"
    /\ Top(req[r].stack).st = st

\* A getOrSetCache that runs the callback whatever redisClient.get replied:
\* the behaviour C7 rules out.
getOrSetCacheRecomputing(r) ==
    /\ helperQ # <<>>
    /\ Head(helperQ).cmd = "get"
    /\ Head(helperQ).r = r
    /\ helperQ' = Tail(helperQ)
    /\ req' = [req EXCEPT ![r].stack =
                 SetTop(@, [Top(req[r].stack) EXCEPT !.st = "cb"])]
    /\ UNCHANGED <<group, person, nextGroupId, nextPersonId, redis, ctrlQ, started>>

\* getOrSetCache, from the reply to redisClient.get: a hit resolves with the
\* parsed text, a miss starts the callback.
getOrSetCache(r) ==
    /\ helperQ # <<>>
    /\ Head(helperQ).cmd = "get"
    /\ Head(helperQ).r = r
    /\ LET stack == req[r].stack
           data == RedisGet(redis, Head(helperQ).key)
       IN IF data # <<>>
          THEN Settle(r, Tail(helperQ),
                      Resolve(r, Filter(req[r]), Pop(stack), JSONparse(data[1]), <<>>))
          ELSE /\ helperQ' = Tail(helperQ)
               /\ req' = [req EXCEPT ![r].stack = SetTop(stack, [Top(stack) EXCEPT !.st = "cb"])]
    /\ UNCHANGED <<group, person, nextGroupId, nextPersonId, redis, ctrlQ, started>>

(***************************************************************************)
(* getPersons and getGroups without an id.                                 *)
(***************************************************************************)
getPersons(r, admitted) ==
    /\ admitted
    /\ \E id \in RequestPersonIds \cup {Undefined} :
         LET cacheKey == IF id # Undefined THEN PersonKey(id) ELSE all_persons
         IN Begin(r, "getPersons", "cache", [id |-> id],
                  <<Frame(cacheKey, Null, NoLocals)>>, <<GetCmd(r, cacheKey)>>)
    /\ UNCHANGED <<group, person, nextGroupId, nextPersonId, redis, ctrlQ>>

\* The callback of getPersons: one SELECT, and a throw when it finds nothing.
getPersonsCallback(r) ==
    /\ InCallback(r, "getPersons", "cb")
    /\ LET personRows == IF req[r].arg.id # Undefined
                         THEN SelectPersonById(person, req[r].arg.id)
                         ELSE SelectAll(person)
       IN IF Len(personRows) = 0 THEN CacheReject(r)
          ELSE CacheFresh(r, Rows(personRows))
    /\ UNCHANGED <<group, person, nextGroupId, nextPersonId, redis, ctrlQ, started>>

getGroups(r, admitted) ==
    /\ admitted
    /\ \/ Begin(r, "getGroups", "cache", [id |-> Undefined, filterCriteria |-> <<>>],
                <<Frame(all_groups, Null, NoLocals)>>, <<GetCmd(r, all_groups)>>)
       \/ \E id \in GroupIds, filterCriteria \in FilterCriterias :
            Begin(r, "getGroups", "cache", [id |-> id, filterCriteria |-> filterCriteria],
                  <<BelowCall(id, filterCriteria)>>,
                  <<GetCmd(r, BelowKey(id, filterCriteria))>>)
    /\ UNCHANGED <<group, person, nextGroupId, nextPersonId, redis, ctrlQ>>

\* The callback of getGroups without an id.
getGroupsCallback(r) ==
    /\ InCallback(r, "getGroups", "cb")
    /\ req[r].arg.id = Undefined
    /\ LET groupsData == SelectAll(group)
       IN IF Len(groupsData) = 0 THEN CacheReject(r)
          ELSE CacheFresh(r, Rows(groupsData))
    /\ UNCHANGED <<group, person, nextGroupId, nextPersonId, redis, ctrlQ, started>>

(***************************************************************************)
(* fetchGroupHierarchyBelow: the callback, statement by statement.         *)
(***************************************************************************)
BelowGroupRow(r) ==
    /\ InCallback(r, "getGroups", "cb")
    /\ req[r].arg.id # Undefined
    /\ LET stack == req[r].stack
           f == Top(stack)
           groupResult == SelectGroupById(group, f.groupId)
       IN IF groupResult = <<>>
          THEN CacheFresh(r, NotFound(f.groupId))
          ELSE /\ req' = [req EXCEPT ![r].stack = SetTop(stack,
                             [f EXCEPT !.st = "persons",
                                       !.v.groupName = groupResult[1].groupName])]
               /\ UNCHANGED helperQ
    /\ UNCHANGED <<group, person, nextGroupId, nextPersonId, redis, ctrlQ, started>>

BelowPersons(r) ==
    /\ InCallback(r, "getGroups", "persons")
    /\ LET stack == req[r].stack
           f == Top(stack)
       IN req' = [req EXCEPT ![r].stack = SetTop(stack,
                     [f EXCEPT !.st = "children",
                               !.v.persons =
                                   SelectPersonsOfGroup(person, f.groupId,
                                                        req[r].arg.filterCriteria)])]
    /\ UNCHANGED <<group, person, nextGroupId, nextPersonId, redis, helperQ, ctrlQ, started>>

\* The SELECT of the child groups, and the first turn of the for loop: the
\* recursive call up to its redisClient.get.
BelowChildGroups(r) ==
    /\ InCallback(r, "getGroups", "children")
    /\ LET stack == req[r].stack
           f == Top(stack)
           childGroups == SelectChildGroups(group, f.groupId)
       IN IF childGroups = <<>>
          THEN CacheFresh(r, f.v)
          ELSE LET call == BelowCall(childGroups[1].id, req[r].arg.filterCriteria)
               IN /\ Len(stack) < MaxDepth
                  /\ req' = [req EXCEPT ![r].stack =
                               Append(SetTop(stack, [f EXCEPT !.st = "child",
                                                              !.todo = childGroups]),
                                      call)]
                  /\ helperQ' = Append(helperQ, GetCmd(r, call.key))
    /\ UNCHANGED <<group, person, nextGroupId, nextPersonId, redis, ctrlQ, started>>

(***************************************************************************)
(* fetchGroupHierarchyAbove, called with the groupId of a person row (the   *)
(* lookup of the row by getGroupsAbove is left out: any issued or          *)
(* unissued group id may be a person's groupId).  The callback keeps the   *)
(* groups it has found, nearest first, in chain; the nested object it      *)
(* returns is built from the chain when the recursion ends, as the pushes  *)
(* on the way back build it.                                               *)
(***************************************************************************)
\* A callback that returns the group without the parents it found: the
\* behaviour C14 rules out.
NestNearest(chain) ==
    [id |-> chain[1].id, groupName |-> chain[1].groupName, parentGroup |-> <<>>]

RECURSIVE Nest(_)
Nest(chain) ==
    [id |-> chain[1].id, groupName |-> chain[1].groupName,
     parentGroup |-> IF Len(chain) = 1 THEN <<>> ELSE <<Nest(Tail(chain))>>]

Link(row) == [id |-> row.id, groupName |-> row.groupName]

fetchGroupHierarchyAbove(r, admitted) ==
    /\ admitted
    /\ \E groupId \in GroupIds :
         Begin(r, "fetchGroupHierarchyAbove", "cache", [groupId |-> groupId],
               <<Frame(AboveKey(groupId), groupId, NoLocals)>>,
               <<GetCmd(r, AboveKey(groupId))>>)
    /\ UNCHANGED <<group, person, nextGroupId, nextPersonId, redis, ctrlQ>>

AboveGroupRow(r) ==
    /\ InCallback(r, "fetchGroupHierarchyAbove", "cb")
    /\ LET stack == req[r].stack
           f == Top(stack)
           groupResult == SelectGroupById(group, f.groupId)
       IN IF groupResult = <<>>
          THEN CacheFresh(r, NotFound(f.groupId))
          ELSE /\ req' = [req EXCEPT ![r].stack = SetTop(stack,
                             [f EXCEPT !.st = "current",
                                       !.v = [chain |-> <<Link(groupResult[1])>>,
                                              currentGroupId |-> f.groupId,
                                              parentGroupId |-> Null]])]
               /\ UNCHANGED helperQ
    /\ UNCHANGED <<group, person, nextGroupId, nextPersonId, redis, ctrlQ, started>>

\* fetchparentGroupRecursive: the SELECT of the current group
AboveCurrentRow(r) ==
    /\ InCallback(r, "fetchGroupHierarchyAbove", "current")
    /\ LET stack == req[r].stack
           f == Top(stack)
           currentGroupResult == SelectGroupById(group, f.v.currentGroupId)
       IN IF currentGroupResult = <<>>
          THEN CacheFresh(r, Nest(f.v.chain))
          ELSE /\ req' = [req EXCEPT ![r].stack = SetTop(stack,
                             [f EXCEPT !.st = "parent",
                                       !.v.parentGroupId =
                                           currentGroupResult[1].parentGroupId])]
               /\ UNCHANGED helperQ
    /\ UNCHANGED <<group, person, nextGroupId, nextPersonId, redis, ctrlQ, started>>

\* A fetchparentGroupRecursive that calls itself for the current group again
\* instead of its parent: the behaviour C19 rules out.
AboveParentRowAgain(r) ==
    /\ InCallback(r, "fetchGroupHierarchyAbove", "parent")
    /\ LET stack == req[r].stack
           f == Top(stack)
           parentGroupResult == SelectGroupById(group, f.v.parentGroupId)
       IN IF parentGroupResult = <<>>
          THEN CacheFresh(r, Nest(f.v.chain))
          ELSE /\ Len(f.v.chain) < MaxDepth
               /\ req' = [req EXCEPT ![r].stack = SetTop(stack,
                             [f EXCEPT !.st = "current",
                                       !.v.chain = Append(@, Link(parentGroupResult[1]))])]
               /\ UNCHANGED helperQ
    /\ UNCHANGED <<group, person, nextGroupId, nextPersonId, redis, ctrlQ, started>>

\* fetchparentGroupRecursive: the SELECT of the parent group, and the call
\* for the parent
AboveParentRow(r) ==
    /\ InCallback(r, "fetchGroupHierarchyAbove", "parent")
    /\ LET stack == req[r].stack
           f == Top(stack)
           parentGroupResult == SelectGroupById(group, f.v.parentGroupId)
       IN IF parentGroupResult = <<>>
          THEN CacheFresh(r, Nest(f.v.chain))
          ELSE /\ Len(f.v.chain) < MaxDepth
               /\ req' = [req EXCEPT ![r].stack = SetTop(stack,
                             [f EXCEPT !.st = "current",
                                       !.v.chain = Append(@, Link(parentGroupResult[1])),
                                       !.v.currentGroupId = parentGroupResult[1].id])]
               /\ UNCHANGED helperQ
    /\ UNCHANGED <<group, person, nextGroupId, nextPersonId, redis, ctrlQ, started>>

(***************************************************************************)
(* The write handlers.  pc names the statement the handler awaits.         *)
(***************************************************************************)
IssuedGroupIds == 1..(nextGroupId - 1)

AtStatement(r, op, pc) == Running(r) /\ req[r].op = op /\ req[r].pc = pc

Goto(r, pc) == req' = [req EXCEPT ![r].pc = pc]

\* An invalidation that leaves all_persons alone: the behaviour C15 rules out.
InvalidatePersonKeepingAll(id) ==
    /\ ctrlQ' = ctrlQ
    /\ helperQ' = IF id = Undefined THEN helperQ
                  ELSE Append(helperQ, KeysCmd(PersonKey(id)))

\* redisClient.del("all_persons"); clearKeysStartingWith(`person_id_${id}`);
\* neither is awaited, so each is only issued here.
InvalidatePerson(id) ==
    /\ ctrlQ' = [ctrlQ EXCEPT !.persons = @ + 1]
    /\ helperQ' = IF id = Undefined THEN helperQ
                  ELSE Append(helperQ, KeysCmd(PersonKey(id)))

\* An invalidation that leaves the subtree entries alone: the behaviour C12
\* rules out.
InvalidateGroupsKeepingSubtrees ==
    /\ ctrlQ' = [ctrlQ EXCEPT !.groups = @ + 1]
    /\ helperQ' = Append(helperQ, KeysCmd(groups_above_))

\* redisClient.del("all_groups"); clearKeysStartingWith("groups_below_");
\* clearKeysStartingWith("groups_above_"); none is awaited.
InvalidateGroups ==
    /\ ctrlQ' = [ctrlQ EXCEPT !.groups = @ + 1]
    /\ helperQ' = helperQ \o <<KeysCmd(groups_below_), KeysCmd(groups_above_)>>

createPerson(r, admitted) ==
    /\ admitted
    /\ nextPersonId <= MaxPersons
    /\ \E firstName \in FirstNames, lastName \in LastNames, jobTitle \in JobTitles,
          groupId \in GroupIds \cup {Null} :
         Begin(r, "createPerson", "insert",
               [firstName |-> firstName, lastName |-> lastName,
                jobTitle |-> jobTitle, groupId |-> groupId], <<>>, <<>>)
    /\ UNCHANGED <<group, person, nextGroupId, nextPersonId, redis, ctrlQ>>

createPersonInsert(r) ==
    /\ AtStatement(r, "createPerson", "insert")
    /\ nextPersonId <= MaxPersons
    /\ person' = (nextPersonId :> [id |-> nextPersonId,
                                   firstName |-> req[r].arg.firstName,
                                   lastName |-> req[r].arg.lastName,
                                   jobTitle |-> req[r].arg.jobTitle,
                                   groupId |-> req[r].arg.groupId]) @@ person
    /\ nextPersonId' = nextPersonId + 1
    /\ InvalidatePerson(Undefined)
    /\ req' = [req EXCEPT ![r] = Respond(@, 200, Message("Person created successfully!"))]
    /\ UNCHANGED <<group, nextGroupId, redis, started>>

updatePerson(r, admitted) ==
    /\ admitted
    /\ \E id \in RequestPersonIds, jobTitle \in JobTitles \cup {NoString},
          groupId \in GroupIds \cup {Null, Undefined} :
         Begin(r, "updatePerson", "select",
               [id |-> id, firstName |-> NoString, lastName |-> NoString,
                jobTitle |-> jobTitle, groupId |-> groupId], <<>>, <<>>)
    /\ UNCHANGED <<group, person, nextGroupId, nextPersonId, redis, ctrlQ>>

updatePersonSelect(r) ==
    /\ AtStatement(r, "updatePerson", "select")
    /\ LET a == req[r].arg
           existingPersonData == SelectPersonById(person, a.id)
       IN req' = [req EXCEPT ![r] =
             IF Len(existingPersonData) = 0
             THEN Respond(@, 404, ErrorBody("Person not found."))
             ELSE IF a.groupId # Undefined
             THEN [@ EXCEPT !.pc = "touchCurrent",
                            !.arg = [currentGroupId |-> existingPersonData[1].groupId] @@ a]
             ELSE IF a.firstName = NoString /\ a.lastName = NoString /\ a.jobTitle = NoString
             THEN Respond(@, 400, ErrorBody("No fields to update."))
             ELSE [@ EXCEPT !.pc = "update"]]
    /\ UNCHANGED <<group, person, nextGroupId, nextPersonId, redis, helperQ, ctrlQ, started>>

updatePersonTouchCurrent(r) ==
    /\ AtStatement(r, "updatePerson", "touchCurrent")
    /\ group' = TouchGroup(group, req[r].arg.currentGroupId, started)
    /\ Goto(r, IF req[r].arg.groupId # Null THEN "touchNew" ELSE "update")
    /\ UNCHANGED <<person, nextGroupId, nextPersonId, redis, helperQ, ctrlQ, started>>

updatePersonTouchNew(r) ==
    /\ AtStatement(r, "updatePerson", "touchNew")
    /\ group' = TouchGroup(group, req[r].arg.groupId, started)
    /\ Goto(r, "update")
    /\ UNCHANGED <<person, nextGroupId, nextPersonId, redis, helperQ, ctrlQ, started>>

\* UPDATE person SET <updateFields> WHERE id = ?
UpdatePersonRow(p, a) ==
    IF a.id \notin DOMAIN p THEN p
    ELSE [p EXCEPT ![a.id] =
            [@ EXCEPT !.firstName = IF a.firstName # NoString THEN a.firstName ELSE @,
                      !.lastName = IF a.lastName # NoString THEN a.lastName ELSE @,
                      !.jobTitle = IF a.jobTitle # NoString THEN a.jobTitle ELSE @,
                      !.groupId = IF a.groupId # Undefined THEN a.groupId ELSE @]]

updatePersonUpdate(r) ==
    /\ AtStatement(r, "updatePerson", "update")
    /\ person' = UpdatePersonRow(person, req[r].arg)
    /\ InvalidatePerson(req[r].arg.id)
    /\ req' = [req EXCEPT ![r] = Respond(@, 200, Message("Person updated successfully!"))]
    /\ UNCHANGED <<group, nextGroupId, nextPersonId, redis, started>>

deletePerson(r, admitted) ==
    /\ admitted
    /\ \E id \in RequestPersonIds :
         Begin(r, "deletePerson", "delete", [id |-> id], <<>>, <<>>)
    /\ UNCHANGED <<group, person, nextGroupId, nextPersonId, redis, ctrlQ>>

deletePersonDelete(r) ==
    /\ AtStatement(r, "deletePerson", "delete")
    /\ person' = Remove(person, req[r].arg.id)
    /\ InvalidatePerson(req[r].arg.id)
    /\ req' = [req EXCEPT ![r] = Respond(@, 200, Message("Person deleted successfully!"))]
    /\ UNCHANGED <<group, nextGroupId, nextPersonId, redis, started>>

createGroup(r, admitted) ==
    /\ admitted
    /\ nextGroupId <= MaxGroups
    /\ \E groupName \in GroupNames, parentGroupId \in IssuedGroupIds \cup {Null} :
         Begin(r, "createGroup", "insert",
               [groupName |-> groupName, parentGroupId |-> parentGroupId], <<>>, <<>>)
    /\ UNCHANGED <<group, person, nextGroupId, nextPersonId, redis, ctrlQ>>

createGroupInsert(r) ==
    /\ AtStatement(r, "createGroup", "insert")
    /\ nextGroupId <= MaxGroups
    /\ group' = (nextGroupId :> [id |-> nextGroupId,
                                 groupName |-> req[r].arg.groupName,
                                 parentGroupId |-> req[r].arg.parentGroupId,
                                 updatedAt |-> [date |-> started]]) @@ group
    /\ nextGroupId' = nextGroupId + 1
    /\ InvalidateGroups
    /\ req' = [req EXCEPT ![r] = Respond(@, 200, Message("Group created successfully!"))]
    /\ UNCHANGED <<person, nextPersonId, redis, started>>

updateGroup(r, admitted) ==
    /\ admitted
    /\ \E id \in GroupIds, groupName \in GroupNames \cup {NoString},
          parentGroupId \in IssuedGroupIds \cup {Null, Undefined} :
         Begin(r, "updateGroup", "select",
               [id |-> id, groupName |-> groupName, parentGroupId |-> parentGroupId],
               <<>>, <<>>)
    /\ UNCHANGED <<group, person, nextGroupId, nextPersonId, redis, ctrlQ>>

\* The handler holds the row it selected in its local existingGroupData
\* until it has responded.
updateGroupSelect(r) ==
    /\ AtStatement(r, "updateGroup", "select")
    /\ LET a == req[r].arg
           existingGroupData == SelectGroupById(group, a.id)
           local == [existingGroupData |-> existingGroupData[1]]
       IN req' = [req EXCEPT ![r] =
             IF Len(existingGroupData) = 0
             THEN Respond(@, 404, ErrorBody("Group not found."))
             ELSE IF a.parentGroupId # Undefined
             THEN local @@ [@ EXCEPT !.pc = "descendants"]
             ELSE IF a.groupName = NoString
             THEN Respond(@, 400, ErrorBody("No fields to update."))
             ELSE local @@ [@ EXCEPT !.pc = "update"]]
    /\ UNCHANGED <<group, person, nextGroupId, nextPersonId, redis, helperQ, ctrlQ, started>>

\* The circular-reference check, and the test of lines 446-448 that follows
\* it before the next statement.
updateGroupDescendants(r) ==
    /\ AtStatement(r, "updateGroup", "descendants")
    /\ LET a == req[r].arg
           descendants == DescendantQuery(group, a.id)
       IN req' = [req EXCEPT ![r] =
             IF descendants.aborted THEN HandlerCatch(@)
             ELSE IF a.parentGroupId \in descendants.ids
             THEN Respond(@, 400, ErrorBody("Circular reference detected."))
             ELSE IF a.parentGroupId = a.id
             THEN Respond(@, 400, ErrorBody("Error updating group."))
             ELSE [@ EXCEPT !.pc = "clearParent"]]
    /\ UNCHANGED <<group, person, nextGroupId, nextPersonId, redis, helperQ, ctrlQ, started>>

\* UPDATE `group` SET parentGroupId = NULL WHERE id = ?
updateGroupClearParent(r) ==
    /\ AtStatement(r, "updateGroup", "clearParent")
    /\ group' = IF req[r].arg.id \in DOMAIN group
                THEN [group EXCEPT ![req[r].arg.id].parentGroupId = Null]
                ELSE group
    /\ Goto(r, "touchParent")
    /\ UNCHANGED <<person, nextGroupId, nextPersonId, redis, helperQ, ctrlQ, started>>

updateGroupTouchParent(r) ==
    /\ AtStatement(r, "updateGroup", "touchParent")
    /\ group' = TouchGroup(group, req[r].arg.parentGroupId, started)
    /\ Goto(r, "update")
    /\ UNCHANGED <<person, nextGroupId, nextPersonId, redis, helperQ, ctrlQ, started>>

\* UPDATE `group` SET <updateFields> WHERE id = ?
UpdateGroupRow(g, a) ==
    IF a.id \notin DOMAIN g THEN g
    ELSE [g EXCEPT ![a.id] =
            [@ EXCEPT !.groupName = IF a.groupName # NoString THEN a.groupName ELSE @,
                      !.parentGroupId =
                          IF a.parentGroupId # Undefined THEN a.parentGroupId ELSE @]]

updateGroupUpdate(r) ==
    /\ AtStatement(r, "updateGroup", "update")
    /\ group' = UpdateGroupRow(group, req[r].arg)
    /\ InvalidateGroups
    /\ req' = [req EXCEPT ![r] = Respond(@, 200, Message("Group updated successfully!"))]
    /\ UNCHANGED <<person, nextGroupId, nextPersonId, redis, started>>

deleteGroup(r, admitted) ==
    /\ admitted
    /\ \E id \in GroupIds :
         Begin(r, "deleteGroup", "delete", [id |-> id], <<>>, <<>>)
    /\ UNCHANGED <<group, person, nextGroupId, nextPersonId, redis, ctrlQ>>

deleteGroupDelete(r) ==
    /\ AtStatement(r, "deleteGroup", "delete")
    /\ group' = Remove(group, req[r].arg.id)
    /\ InvalidateGroups
    /\ req' = [req EXCEPT ![r] = Respond(@, 200, Message("Group deleted successfully!"))]
    /\ UNCHANGED <<person, nextGroupId, nextPersonId, redis, started>>

\* pool.query rejects (the store cannot be reached): the handler's catch
\* answers 500, and a getOrSetCache call around the statement rejects.
AwaitsStatement(r) ==
    /\ Running(r)
    /\ req[r].pc = "cache" => Top(req[r].stack).st \notin {"get", "child"}

QueryFails(r) ==
    /\ AwaitsStatement(r)
    /\ req' = [req EXCEPT ![r] = HandlerCatch(@)]
    /\ UNCHANGED <<group, person, nextGroupId, nextPersonId, redis, helperQ, ctrlQ, started>>

(***************************************************************************)
(* Redis executes the commands of a client in the order the client issued  *)
(* them.                                                                   *)
(***************************************************************************)
HelperHead(cmd) == helperQ # <<>> /\ Head(helperQ).cmd = cmd

RedisSetexExec ==
    /\ HelperHead("setex")
    /\ redis' = RedisSetex(redis, Head(helperQ).key, Head(helperQ).ex, Head(helperQ).text)
    /\ helperQ' = Tail(helperQ)
    /\ UNCHANGED <<group, person, nextGroupId, nextPersonId, ctrlQ, req, started>>

\* clearKeysStartingWith: KEYS `${prefix}*`, and the DEL it issues on the reply
clearKeysStartingWith ==
    /\ HelperHead("keys")
    /\ LET keys == RedisKeys(redis, Head(helperQ).prefix)
       IN helperQ' = IF Cardinality(keys) > 0
                     THEN Append(Tail(helperQ), DelCmd(keys))
                     ELSE Tail(helperQ)
    /\ UNCHANGED <<group, person, nextGroupId, nextPersonId, redis, ctrlQ, req, started>>

RedisDelExec ==
    /\ HelperHead("del")
    /\ redis' = RedisDel(redis, Head(helperQ).keys)
    /\ helperQ' = Tail(helperQ)
    /\ UNCHANGED <<group, person, nextGroupId, nextPersonId, ctrlQ, req, started>>

\* redisClient.del("all_persons") / redisClient.del("all_groups") of a controller
ControllerDelExec ==
    /\ \/ /\ ctrlQ.persons > 0
          /\ redis' = RedisDel(redis, {all_persons})
          /\ ctrlQ' = [ctrlQ EXCEPT !.persons = @ - 1]
       \/ /\ ctrlQ.groups > 0
          /\ redis' = RedisDel(redis, {all_groups})
          /\ ctrlQ' = [ctrlQ EXCEPT !.groups = @ - 1]
    /\ UNCHANGED <<group, person, nextGroupId, nextPersonId, helperQ, req, started>>

\* An entry reaches its expiry.
Expire ==
    /\ \E key \in DOMAIN redis : redis' = RedisDel(redis, {key})
    /\ UNCHANGED <<group, person, nextGroupId, nextPersonId, helperQ, ctrlQ, req, started>>

ReadArrives(r, admitted) ==
    \/ getPersons(r, admitted)
    \/ getGroups(r, admitted)
    \/ fetchGroupHierarchyAbove(r, admitted)

ReadSteps(r) ==
    \/ getOrSetCache(r)
    \/ getPersonsCallback(r)
    \/ getGroupsCallback(r)
    \/ BelowGroupRow(r)
    \/ BelowPersons(r)
    \/ BelowChildGroups(r)
    \/ AboveGroupRow(r)
    \/ AboveCurrentRow(r)
    \/ AboveParentRow(r)

PersonWriteArrives(r, admitted) ==
    \/ createPerson(r, admitted)
    \/ updatePerson(r, admitted)
    \/ deletePerson(r, admitted)

PersonWriteSteps(r) ==
    \/ createPersonInsert(r)
    \/ updatePersonSelect(r)
    \/ updatePersonTouchCurrent(r)
    \/ updatePersonTouchNew(r)
    \/ updatePersonUpdate(r)
    \/ deletePersonDelete(r)

GroupWriteArrives(r, admitted) ==
    \/ createGroup(r, admitted)
    \/ updateGroup(r, admitted)
    \/ deleteGroup(r, admitted)

UpdateGroupSteps(r) ==
    \/ updateGroupSelect(r)
    \/ updateGroupDescendants(r)
    \/ updateGroupClearParent(r)
    \/ updateGroupTouchParent(r)
    \/ updateGroupUpdate(r)

GroupWriteSteps(r) ==
    \/ createGroupInsert(r)
    \/ UpdateGroupSteps(r)
    \/ deleteGroupDelete(r)

Redis ==
    \/ RedisSetexExec
    \/ clearKeysStartingWith
    \/ RedisDelExec
    \/ ControllerDelExec
    \/ Expire

(***************************************************************************)
(* Spec: the whole service, one request at a time: every request, its      *)
(* invalidation included, runs to completion before the next one arrives.  *)
(***************************************************************************)
Next ==
    \/ \E r \in Slots :
         \/ ReadArrives(r, Sequential(r, MaxRequests))
         \/ PersonWriteArrives(r, Sequential(r, MaxRequests))
         \/ GroupWriteArrives(r, Sequential(r, MaxRequests))
         \/ ReadSteps(r)
         \/ PersonWriteSteps(r)
         \/ GroupWriteSteps(r)
         \/ QueryFails(r)
    \/ Redis

Spec == Init /\ [][Next]_vars

(***************************************************************************)
(* SpecCache: the cache-aside engine under every read handler, one request *)
(* at a time, over a store that creates fill.                              *)
(***************************************************************************)
NextCache ==
    \/ \E r \in Slots :
         \/ ReadArrives(r, Sequential(r, MaxCacheRequests))
         \/ createPerson(r, Sequential(r, MaxCacheRequests))
         \/ createGroup(r, Sequential(r, MaxCacheRequests))
         \/ ReadSteps(r)
         \/ createPersonInsert(r)
         \/ createGroupInsert(r)
         \/ QueryFails(r)
    \/ Redis

SpecCache == Init /\ [][NextCache]_vars

(***************************************************************************)
(* SpecWriters: the group writes, statement by statement, over a store     *)
(* that answers every statement; an updateGroup request may arrive while   *)
(* another request is being handled, createGroup and deleteGroup arrive    *)
(* when none is.  The Redis commands the writes issue stay in the clients' *)
(* queues: executing them changes neither a table nor a handler.           *)
(***************************************************************************)
NextWriters ==
    \E r \in Slots :
        \/ createGroup(r, Admit(r, MaxWriterRequests) /\ \A q \in Slots : ~Running(q))
        \/ deleteGroup(r, Admit(r, MaxWriterRequests) /\ \A q \in Slots : ~Running(q))
        \/ updateGroup(r, Admit(r, MaxWriterRequests))
        \/ GroupWriteSteps(r)

SpecWriters == Init /\ [][NextWriters]_vars

(***************************************************************************)
(* SpecSuccessive: the group writes and the two traversals, one request at *)
(* a time, over a store that answers every statement and within the expiry *)
(* of every entry.  Each request runs in the slot after its predecessor's, *)
(* so that the request before the latest is still to be seen when the      *)
(* latest runs.                                                            *)
(***************************************************************************)
Successive(r, budget) ==
    /\ started < budget
    /\ Quiescent
    /\ \A q \in Slots : ~Running(q)
    /\ r = (started % MaxInFlight) + 1

\* The slot of the request started last, and of the one started before it.
Latest == ((started + MaxInFlight - 1) % MaxInFlight) + 1
Previous == ((started + MaxInFlight - 2) % MaxInFlight) + 1

RedisCommands ==
    \/ RedisSetexExec
    \/ clearKeysStartingWith
    \/ RedisDelExec
    \/ ControllerDelExec

NextSuccessive ==
    \/ \E r \in Slots :
         \/ getGroups(r, Successive(r, MaxSuccessiveRequests))
         \/ fetchGroupHierarchyAbove(r, Successive(r, MaxSuccessiveRequests))
         \/ GroupWriteArrives(r, Successive(r, MaxSuccessiveRequests))
         \/ getOrSetCache(r)
         \/ getGroupsCallback(r)
         \/ BelowGroupRow(r)
         \/ BelowPersons(r)
         \/ BelowChildGroups(r)
         \/ AboveGroupRow(r)
         \/ AboveCurrentRow(r)
         \/ AboveParentRow(r)
         \/ GroupWriteSteps(r)
    \/ RedisCommands

SpecSuccessive == Init /\ [][NextSuccessive]_vars

(***************************************************************************)
(* SpecCold: the two traversals started on an empty cache, one request at  *)
(* a time, over a store that creates and deleteGroup fill and thin out and *)
(* that answers every statement.                                           *)
(***************************************************************************)
Cold(r, budget) == Sequential(r, budget) /\ redis = <<>>

NextCold ==
    \/ \E r \in Slots :
         \/ getGroups(r, Cold(r, MaxColdRequests))
         \/ fetchGroupHierarchyAbove(r, Cold(r, MaxColdRequests))
         \/ createPerson(r, Sequential(r, MaxColdRequests))
         \/ createGroup(r, Sequential(r, MaxColdRequests))
         \/ deleteGroup(r, Sequential(r, MaxColdRequests))
         \/ getOrSetCache(r)
         \/ getGroupsCallback(r)
         \/ BelowGroupRow(r)
         \/ BelowPersons(r)
         \/ BelowChildGroups(r)
         \/ AboveGroupRow(r)
         \/ AboveCurrentRow(r)
         \/ AboveParentRow(r)
         \/ createPersonInsert(r)
         \/ createGroupInsert(r)
         \/ deleteGroupDelete(r)
    \/ Redis

SpecCold == Init /\ [][NextCold]_vars

(***************************************************************************)
(* SpecPersons: the person handlers, one request at a time, over a store   *)
(* that answers every statement.                                           *)
(***************************************************************************)
NextPersons ==
    \/ \E r \in Slots :
         \/ getPersons(r, Sequential(r, MaxPersonRequests))
         \/ PersonWriteArrives(r, Sequential(r, MaxPersonRequests))
         \/ getOrSetCache(r)
         \/ getPersonsCallback(r)
         \/ PersonWriteSteps(r)
    \/ Redis

SpecPersons == Init /\ [][NextPersons]_vars

(***************************************************************************)
(* SpecStored: the service started over a person table that holds rows     *)
(* already, one of them under an id whose decimal text begins with the     *)
(* text of another one's id; getPersons, updatePerson and deletePerson,    *)
(* one request at a time, over a store that answers every statement and    *)
(* within the expiry of every entry.                                       *)
(***************************************************************************)
StoredPersonIds == {MaxPersons, 10 * MaxPersons}

InitStored ==
    /\ group = <<>>
    /\ \E jobTitle \in [StoredPersonIds -> JobTitles] :
         person = [id \in StoredPersonIds |->
                      [id |-> id, firstName |-> "Al", lastName |-> "Li",
                       jobTitle |-> jobTitle[id], groupId |-> Null]]
    /\ nextGroupId = 1
    /\ nextPersonId = (10 * MaxPersons) + 1
    /\ redis = <<>>
    /\ helperQ = <<>>
    /\ ctrlQ = [persons |-> 0, groups |-> 0]
    /\ req = [r \in Slots |-> Idle]
    /\ started = 0

NextStored ==
    \/ \E r \in Slots :
         \/ getPersons(r, Sequential(r, MaxStoredRequests))
         \/ updatePerson(r, Sequential(r, MaxStoredRequests))
         \/ deletePerson(r, Sequential(r, MaxStoredRequests))
         \/ getOrSetCache(r)
         \/ getPersonsCallback(r)
         \/ updatePersonSelect(r)
         \/ updatePersonTouchCurrent(r)
         \/ updatePersonTouchNew(r)
         \/ updatePersonUpdate(r)
         \/ deletePersonDelete(r)
    \/ RedisCommands

SpecStored == InitStored /\ [][NextStored]_vars

(***************************************************************************)
(* SpecRace: getGroups and deleteGroup handled concurrently, statement by  *)
(* statement, over a store that createGroup fills one request at a time    *)
(* and that answers every statement, within the expiry of every entry.     *)
(***************************************************************************)
NextRace ==
    \/ \E r \in Slots :
         \/ getGroups(r, Admit(r, MaxRaceRequests))
         \/ deleteGroup(r, Admit(r, MaxRaceRequests))
         \/ createGroup(r, Sequential(r, MaxRaceRequests))
         \/ getOrSetCache(r)
         \/ getGroupsCallback(r)
         \/ BelowGroupRow(r)
         \/ BelowPersons(r)
         \/ BelowChildGroups(r)
         \/ createGroupInsert(r)
         \/ deleteGroupDelete(r)
    \/ RedisCommands

SpecRace == Init /\ [][NextRace]_vars

(***************************************************************************)
(* SpecTraversal: the two traversals, one request at a time, over the      *)
(* stores createGroup and deleteGroup build, which answer every statement. *)
(* The event loop runs every continuation whose await has settled and      *)
(* Redis executes every command it was sent: weak fairness on both.        *)
(***************************************************************************)
TraversalStep ==
    \E r \in Slots :
        \/ getOrSetCache(r)
        \/ BelowGroupRow(r)
        \/ BelowPersons(r)
        \/ BelowChildGroups(r)
        \/ AboveGroupRow(r)
        \/ AboveCurrentRow(r)
        \/ AboveParentRow(r)

NextTraversal ==
    \/ \E r \in Slots :
         \/ getGroups(r, Sequential(r, MaxTraversalRequests))
         \/ fetchGroupHierarchyAbove(r, Sequential(r, MaxTraversalRequests))
         \/ createGroup(r, Sequential(r, MaxTraversalRequests))
         \/ deleteGroup(r, Sequential(r, MaxTraversalRequests))
         \/ getGroupsCallback(r)
         \/ createGroupInsert(r)
         \/ deleteGroupDelete(r)
    \/ TraversalStep
    \/ RedisCommands

SpecTraversal ==
    /\ Init
    /\ [][NextTraversal]_vars
    /\ WF_vars(TraversalStep)
    /\ WF_vars(RedisCommands)

(***************************************************************************)
(* SpecReparent: getGroups handled statement by statement while updateGroup *)
(* requests re-parent groups.  createGroup and getGroups arrive when no    *)
(* request is being handled, updateGroup while a getGroups and no write    *)
(* is, so that no two writes overlap; the store answers every statement,   *)
(* within the expiry of every entry.                                       *)
(***************************************************************************)
NextReparent ==
    \/ \E r \in Slots :
         \/ createGroup(r, Sequential(r, MaxReparentRequests))
         \/ getGroups(r, Sequential(r, MaxReparentRequests))
         \/ updateGroup(r, /\ Admit(r, MaxReparentRequests)
                           /\ \E q \in Slots : Running(q)
                           /\ \A q \in Slots : Running(q) => req[q].op = "getGroups")
         \/ getOrSetCache(r)
         \/ getGroupsCallback(r)
         \/ BelowGroupRow(r)
         \/ BelowPersons(r)
         \/ BelowChildGroups(r)
         \/ createGroupInsert(r)
         \/ UpdateGroupSteps(r)
    \/ RedisCommands

SpecReparent == Init /\ [][NextReparent]_vars

(***************************************************************************)
(* What a traversal of the store as it stands returns: the reference the   *)
(* claims compare the handlers' answers with.                              *)
(***************************************************************************)
RECURSIVE AncestorsOf(_, _)
AncestorsOf(g, groupId) ==
    [id |-> groupId, groupName |-> g[groupId].groupName,
     parentGroup |-> IF g[groupId].parentGroupId \in DOMAIN g
                     THEN <<AncestorsOf(g, g[groupId].parentGroupId)>>
                     ELSE <<>>]

RECURSIVE SubtreeOf(_, _, _, _)
SubtreeOf(g, p, groupId, filterCriteria) ==
    LET children == Ascending({c \in DOMAIN g : g[c].parentGroupId = groupId})
    IN [id |-> groupId, groupName |-> g[groupId].groupName,
        persons |-> SelectPersonsOfGroup(p, groupId, filterCriteria),
        groups |-> [i \in 1..Len(children) |->
                       SubtreeOf(g, p, children[i], filterCriteria)]]

\* A subtree without its persons: what the `group` table alone decides.
RECURSIVE Shape(_)
Shape(node) ==
    [id |-> node.id, groupName |-> node.groupName,
     groups |-> [i \in 1..Len(node.groups) |-> Shape(node.groups[i])]]

\* Every persons list of a subtree is what the person table holds now.
RECURSIVE PersonsCurrent(_, _)
PersonsCurrent(node, filterCriteria) ==
    /\ node.persons = SelectPersonsOfGroup(person, node.id, filterCriteria)
    /\ \A i \in 1..Len(node.groups) : PersonsCurrent(node.groups[i], filterCriteria)

\* The ids below (and including) groupId, on any parent relation.
RECURSIVE Closure(_, _)
Closure(g, seen) ==
    LET more == seen \cup {c \in DOMAIN g : g[c].parentGroupId \in seen}
    IN IF more = seen THEN seen ELSE Closure(g, more)

DescendantSet(g, groupId) == Closure(g, {groupId} \cap DOMAIN g)

Acyclic(g) == \A id \in DOMAIN g : ~DescendantQuery(g, id).aborted

IsAboveKey(key) == \E groupId \in GroupIds : key = AboveKey(groupId)
IsBelowKey(key) ==
    \E groupId \in GroupIds, filterCriteria \in FilterCriterias :
        key = BelowKey(groupId, filterCriteria)

Reads == {"getPersons", "getGroups", "fetchGroupHierarchyAbove"}
GroupWrites == {"createGroup", "updateGroup", "deleteGroup"}
PersonWrites == {"createPerson", "updatePerson", "deletePerson"}

Answered(r, ops) == req[r].pc = "done" /\ req[r].op \in ops
\* The handler of q ended in its catch block.
Failed(q) == q.pc = "done" /\ q.res.status \in {0, 500}
Succeeded(r, ops) == Answered(r, ops) /\ req[r].res.status = 200
SubtreeRead(r) == Answered(r, {"getGroups"}) /\ req[r].arg.id # Undefined

\* row satisfies every criterion of filters.
Satisfies(row, filters) ==
    \A i \in DOMAIN filters : row[filters[i].k] = filters[i].v

\* node is the subtree of group groupId the tables hold, for filters.
RECURSIVE IsSubtree(_, _, _)
IsSubtree(node, groupId, filters) ==
    LET members == {i \in DOMAIN person :
                       person[i].groupId = groupId /\ Satisfies(person[i], filters)}
        children == {c \in DOMAIN group : group[c].parentGroupId = groupId}
    IN /\ node.id = groupId
       /\ node.groupName = group[groupId].groupName
       /\ Len(node.persons) = Cardinality(members)
       /\ \A i \in members : \E k \in DOMAIN node.persons :
              node.persons[k] = [id |-> i, firstName |-> person[i].firstName,
                                 lastName |-> person[i].lastName,
                                 jobTitle |-> person[i].jobTitle]
       /\ Len(node.groups) = Cardinality(children)
       /\ \A c \in children : \E k \in DOMAIN node.groups :
              IsSubtree(node.groups[k], c, filters)

\* node is the chain of parent pointers from group groupId.
RECURSIVE IsChain(_, _)
IsChain(node, groupId) ==
    /\ node.id = groupId
    /\ node.groupName = group[groupId].groupName
    /\ IF group[groupId].parentGroupId \in DOMAIN group
       THEN /\ Len(node.parentGroup) = 1
            /\ IsChain(node.parentGroup[1], group[groupId].parentGroupId)
       ELSE node.parentGroup = <<>>

\* The key of the getOrSetCache call the handler of request q makes.
RequestKey(q) ==
    CASE q.op = "getPersons" ->
             IF q.arg.id # Undefined THEN PersonKey(q.arg.id) ELSE all_persons
      [] q.op = "getGroups" ->
             IF q.arg.id # Undefined THEN BelowKey(q.arg.id, q.arg.filterCriteria)
             ELSE all_groups
      [] q.op = "fetchGroupHierarchyAbove" -> AboveKey(q.arg.groupId)

\* The innermost getOrSetCache call of r is inside its callback.
CallbackRuns(r) ==
    /\ Running(r)
    /\ req[r].pc = "cache"
    /\ Top(req[r].stack).st # "get"

\* A setex for key is among the commands of queue.
Stores(queue, key) ==
    \E i \in DOMAIN queue : queue[i].cmd = "setex" /\ queue[i].key = key

\* The step is the reply to the redisClient.get of r's innermost call.
GetReplied(r) ==
    /\ helperQ # <<>>
    /\ Head(helperQ).cmd = "get"
    /\ Head(helperQ).r = r
    /\ helperQ' # helperQ

\* The step is the failure of the callback of r's innermost call.
CallbackFails(r) ==
    /\ CallbackRuns(r)
    /\ Failed(req'[r])

\* The step is the return of the callback of r's innermost call.
CallbackReturns(r) ==
    /\ CallbackRuns(r)
    /\ \/ req'[r].pc = "done" /\ ~Failed(req'[r])
       \/ /\ req'[r].pc = "cache"
          /\ \/ Len(req'[r].stack) < Len(req[r].stack)
             \/ /\ Len(req'[r].stack) = Len(req[r].stack)
                /\ Top(req'[r].stack).key # Top(req[r].stack).key


(***************************************************************************)
(* The claims.                                                             *)
(***************************************************************************)

\* C1: once a createGroup, updateGroup or deleteGroup has completed its
\* invalidation, the cache holds no entry from before the write under
\* all_groups, under a subtree key or under an ancestor key.  (Under Spec the
\* entries present when the write's commands have all run are entries from
\* before the write.)
C1_GroupWriteClearsGroupEntries ==
    \A r \in Slots :
        Succeeded(r, GroupWrites) /\ Quiescent =>
            \A key \in DOMAIN redis :
                key # all_groups /\ ~IsBelowKey(key) /\ ~IsAboveKey(key)

\* C2: a traversal read that starts after a group write's invalidation has
\* completed recomputes from the store: what it answers is what the `group`
\* table as it stands decides.
C2_ReadAfterGroupWriteIsFresh ==
    \A r \in Slots :
        /\ Answered(r, {"fetchGroupHierarchyAbove"}) /\ ~Failed(req[r]) =>
             req[r].res.body =
                 IF req[r].arg.groupId \in DOMAIN group
                 THEN AncestorsOf(group, req[r].arg.groupId)
                 ELSE NotFound(req[r].arg.groupId)
        /\ SubtreeRead(r) /\ ~Failed(req[r]) =>
             IF req[r].arg.id \in DOMAIN group
             THEN /\ ~IsError(req[r].res.body)
                  /\ Shape(req[r].res.body) =
                         Shape(SubtreeOf(group, person, req[r].arg.id, <<>>))
             ELSE req[r].res.body = NotFound(req[r].arg.id)

\* C3: after a person create, update or delete has completed, every
\* fetchSubtree answers persons lists that match the person rows of the store.
C3_SubtreePersonsCurrent ==
    \A r \in Slots :
        SubtreeRead(r) /\ req[r].res.status = 200 =>
            PersonsCurrent(req[r].res.body, req[r].arg.filterCriteria)

\* C4: in every reachable state of the store, under any interleaving of
\* concurrent createGroup, updateGroup and deleteGroup requests, the parent
\* relation is acyclic.
C4_ParentRelationAcyclic == Acyclic(group)

\* C5: no cache entry holds a NotFound/error result.
C5_NoErrorCached ==
    \A key \in DOMAIN redis : ~IsError(JSONparse(redis[key].text))

\* C6: when the callback of a getOrSetCache call fails, the failure reaches
\* the caller (the handler's catch block runs), the step changes neither the
\* cache nor the commands on their way to it, and no call that was waiting
\* for the callback has an entry, or a setex on its way, under its key; when
\* the next request asks for the same key, its get finds no entry, so that
\* the callback runs again.
C6_FailedCallbackCachesNothing ==
    [][\A r \in Slots :
          /\ CallbackFails(r) =>
                /\ req'[r] = HandlerCatch(req[r])
                /\ redis' = redis
                /\ helperQ' = helperQ
                /\ ctrlQ' = ctrlQ
                /\ \A i \in DOMAIN req[r].stack :
                      /\ req[r].stack[i].key \notin DOMAIN redis'
                      /\ ~Stores(helperQ', req[r].stack[i].key)
          /\ /\ Answered(r, Reads)
             /\ Failed(req[r])
             /\ req'[r].pc = "cache"
             /\ RequestKey(req'[r]) = RequestKey(req[r])
             => /\ RequestKey(req'[r]) \notin DOMAIN redis'
                /\ helperQ' = <<GetCmd(r, RequestKey(req'[r]))>>
      ]_vars

\* C6 witness: a read whose callback failed has ended in its catch block
\* while the cache holds entries of earlier calls.
C6_Witness ==
    \E r \in Slots :
        /\ Answered(r, Reads)
        /\ Failed(req[r])
        /\ redis # <<>>

\* C7: on the reply to its get, a getOrSetCache call that finds an entry
\* under its key resolves with the parsed text of the entry without starting
\* its callback, without issuing a command and without changing the cache or
\* the tables; a call that finds none starts its callback, and a callback is
\* started by nothing else (so once per call); when the callback returns, the
\* call issues setex of the result under its key with DEFAULT_EXPIRATION and
\* resolves with that result; and Redis stores what setex carries.
C7_HitReturnsStoredMissComputesOnce ==
    [][/\ \A r \in Slots :
            LET key == Head(helperQ).key
                stack == req[r].stack
            IN /\ GetReplied(r) /\ key \in DOMAIN redis =>
                     /\ UNCHANGED <<redis, group, person, nextGroupId, nextPersonId, ctrlQ>>
                     /\ ~Stores(helperQ', key)
                     /\ Len(stack) = 1 =>
                            /\ req'[r] = HandlerThen(req[r], JSONparse(redis[key].text))
                            /\ helperQ' = Tail(helperQ)
                     /\ req'[r].pc = "cache" =>
                            \A i \in DOMAIN req'[r].stack :
                                req'[r].stack[i].key = key => req'[r].stack[i].st = "get"
               /\ GetReplied(r) /\ key \notin DOMAIN redis =>
                     /\ UNCHANGED <<redis, group, person, nextGroupId, nextPersonId, ctrlQ>>
                     /\ helperQ' = Tail(helperQ)
                     /\ req'[r] = [req[r] EXCEPT !.stack =
                                     SetTop(stack, [Top(stack) EXCEPT !.st = "cb"])]
               /\ /\ req'[r] # req[r]
                  /\ req'[r].pc = "cache"
                  /\ Top(req'[r].stack).st = "cb"
                  => /\ GetReplied(r)
                     /\ key = Top(req'[r].stack).key
                     /\ key \notin DOMAIN redis
               /\ CallbackReturns(r) =>
                     /\ redis' = redis
                     /\ Len(helperQ') > Len(helperQ)
                     /\ SubSeq(helperQ', 1, Len(helperQ)) = helperQ
                     /\ LET setex == helperQ'[Len(helperQ) + 1]
                        IN /\ setex.cmd = "setex"
                           /\ setex.key = Top(stack).key
                           /\ setex.ex = DEFAULT_EXPIRATION
                           /\ Len(stack) = 1 =>
                                  /\ req'[r].pc = "done"
                                  /\ req'[r].res.body = JSONparse(setex.text)
       /\ HelperHead("setex") /\ helperQ' = Tail(helperQ) =>
            /\ Head(helperQ).key \in DOMAIN redis'
            /\ redis'[Head(helperQ).key] =
                   [text |-> Head(helperQ).text, ex |-> DEFAULT_EXPIRATION]
            /\ \A k \in DOMAIN redis \ {Head(helperQ).key} :
                   k \in DOMAIN redis' /\ redis'[k] = redis[k]
      ]_vars

\* C7 witness: fetchGroupHierarchyAbove has answered from an entry the store
\* no longer agrees with, which only a hit can give.
C7_Witness ==
    \E r \in Slots :
        /\ Answered(r, {"fetchGroupHierarchyAbove"})
        /\ req[r].res.status = 200
        /\ req[r].arg.groupId \in DOMAIN group
        /\ req[r].res.body = NotFound(req[r].arg.groupId)
        /\ AboveKey(req[r].arg.groupId) \in DOMAIN redis

\* C8: when a write has produced its success response, all of its cache
\* deletions have completed (none of its commands is still to be executed).
C8_DeletionsBeforeResponse ==
    \A r \in Slots :
        Succeeded(r, GroupWrites \cup PersonWrites) => Quiescent

\* C9: an updateGroup whose parentGroupId lies in the descendant set of the
\* group it updates (that group included) is answered 400 "Circular reference
\* detected." by its check, and the check changes no group row and neither
\* the cache nor the commands on their way to it.
C9_DescendantParentRejected ==
    [][\A r \in Slots :
          /\ AtStatement(r, "updateGroup", "descendants")
          /\ req[r].arg.parentGroupId \in DescendantSet(group, req[r].arg.id)
          /\ req'[r] # req[r]
          => /\ req'[r] = Respond(req[r], 400, ErrorBody("Circular reference detected."))
             /\ group' = group
             /\ redis' = redis
             /\ helperQ' = helperQ
             /\ ctrlQ' = ctrlQ
      ]_vars

\* C11: when fetchGroupHierarchyAbove(g) is called twice in succession (no
\* request, so no write, in between), the second call never enters its
\* callback, where the store is queried, and answers what the first answered.
C11_SecondCallIsPureHit ==
    started >= 2 =>
        LET first == req[Previous]
            second == req[Latest]
        IN /\ first.op = "fetchGroupHierarchyAbove"
           /\ second.op = "fetchGroupHierarchyAbove"
           /\ first.pc = "done"
           /\ ~Failed(first)
           /\ second.arg = first.arg
           => /\ second.pc = "cache" => Top(second.stack).st = "get"
              /\ second.pc = "done" => second.res = first.res

\* C11 witness: two successive calls for a group that exists have both been
\* answered.
C11_Witness ==
    /\ started >= 2
    /\ Answered(Previous, {"fetchGroupHierarchyAbove"})
    /\ Answered(Latest, {"fetchGroupHierarchyAbove"})
    /\ req[Latest].arg = req[Previous].arg
    /\ req[Latest].res.status = 200
    /\ ~IsError(req[Latest].res.body)

C13_SubtreeOfColdCache ==
    \A r \in Slots :
        SubtreeRead(r) /\ req[r].arg.id \in DOMAIN group =>
            /\ req[r].res.status = 200
            /\ ~IsError(req[r].res.body)
            /\ IsSubtree(req[r].res.body, req[r].arg.id, req[r].arg.filterCriteria)

\* C13 witness: such a call has answered a node from which the criteria kept
\* a person out.
C13_Witness ==
    \E r \in Slots :
        /\ SubtreeRead(r)
        /\ req[r].res.status = 200
        /\ req[r].arg.filterCriteria # <<>>
        /\ req[r].res.body.persons = <<>>
        /\ \E i \in DOMAIN person : person[i].groupId = req[r].arg.id

\* C14: a fetchGroupHierarchyAbove(g) for a group that exists, started on an
\* empty cache over an acyclic store with no write in flight, answers the
\* chain of parent pointers from g: the parentGroup of a node holds the node
\* of the parent row when that row exists, and nothing when parentGroupId is
\* null or names no row.
C14_AncestorsOfColdCache ==
    \A r \in Slots :
        /\ Answered(r, {"fetchGroupHierarchyAbove"})
        /\ req[r].arg.groupId \in DOMAIN group
        => /\ req[r].res.status = 200
           /\ ~IsError(req[r].res.body)
           /\ IsChain(req[r].res.body, req[r].arg.groupId)

\* C14 witness: such a call has answered for a group whose parentGroupId
\* names no row.
C14_Witness ==
    \E r \in Slots :
        /\ Answered(r, {"fetchGroupHierarchyAbove"})
        /\ req[r].res.status = 200
        /\ req[r].arg.groupId \in DOMAIN group
        /\ group[req[r].arg.groupId].parentGroupId # Null
        /\ group[req[r].arg.groupId].parentGroupId \notin DOMAIN group

C16_KeyShapes ==
    \A key \in DOMAIN redis :
        \/ key = all_persons
        \/ key = all_groups
        \/ \E id \in PersonIds : key = person_id_ \o Decimal(id)
        \/ \E id \in GroupIds : key = group_above_ \o Decimal(id)
        \/ \E id \in GroupIds, filterCriteria \in FilterCriterias :
              key = groups_below_ \o Decimal(id) \o <<"_">> \o StringifyFilter(filterCriteria)

\* C17: a getGroups(id) that started on an empty cache (so that it missed)
\* has, once its commands have all run, created no entry but the one under
\* the key of its group and criteria: none for a descendant group.
C17_MissCreatesOneEntry ==
    \A r \in Slots :
        SubtreeRead(r) /\ Quiescent =>
            DOMAIN redis \subseteq {RequestKey(req[r])}

\* r is inside a recursive call of fetchGroupHierarchyBelow, for a child.
InChildCall(r) ==
    /\ Running(r)
    /\ req[r].op = "getGroups"
    /\ req[r].pc = "cache"
    /\ Len(req[r].stack) > 1

\* C18: when the recursive call for a child returns NotFound, because the
\* child's row is gone at its lookup or because the entry under the child's
\* key holds a NotFound, the request is answered in that very step with 404
\* and that same NotFound: no tree is returned.
C18_ChildNotFoundShortCircuits ==
    [][\A r \in Slots :
          LET f == Top(req[r].stack)
              data == RedisGet(redis, f.key)
          IN /\ (/\ InChildCall(r)
                  /\ f.st = "cb"
                  /\ SelectGroupById(group, f.groupId) = <<>>
                  /\ req'[r] # req[r]
                  /\ ~Failed(req'[r]))
                     => req'[r] = Respond(req[r], 404, NotFound(f.groupId))
             /\ (/\ InChildCall(r)
                  /\ GetReplied(r)
                  /\ data # <<>>
                  /\ IsError(JSONparse(data[1])))
                     => req'[r] = Respond(req[r], 404, JSONparse(data[1]))]_vars

\* A getGroups(id) was answered 404 with the NotFound of a descendant while
\* the row of group id itself is there.
C18_Witness ==
    \E r \in Slots :
        /\ SubtreeRead(r)
        /\ req[r].arg.id \in DOMAIN group
        /\ req[r].res.status = 404
        /\ req[r].res.body = NotFound(req[r].res.body.error.id)
        /\ req[r].res.body.error.id # req[r].arg.id

\* The number of ancestors of groupId, on an acyclic parent relation.
RECURSIVE Height(_, _)
Height(g, groupId) ==
    IF groupId \in DOMAIN g /\ g[groupId].parentGroupId \in DOMAIN g
    THEN 1 + Height(g, g[groupId].parentGroupId)
    ELSE 0

\* r is a fetchAncestors or fetchSubtree call that has not returned.
Traversing(r) ==
    /\ Running(r)
    /\ \/ req[r].op = "fetchGroupHierarchyAbove"
       \/ req[r].op = "getGroups" /\ req[r].arg.id # Undefined

\* The calls of fetchparentGroupRecursive made so far after the first one.
RecursiveSteps(r) ==
    IF Top(req[r].stack).st \in {"current", "parent"}
    THEN Len(Top(req[r].stack).v.chain) - 1
    ELSE 0

\* C19: with one request at a time on an acyclic parent relation, every
\* traversal eventually returns, and fetchGroupHierarchyAbove never makes
\* more recursive steps than the group has ancestors.
C19_TraversalsTerminate ==
    /\ [](\A r \in Slots :
             Traversing(r) /\ req[r].op = "fetchGroupHierarchyAbove"
                 => RecursiveSteps(r) <= Height(group, req[r].arg.groupId))
    /\ \A r \in Slots : Traversing(r) ~> req[r].pc = "done"

\* An ancestor traversal has made as many recursive steps as its group has
\* ancestors, and the group has one.
C19_Witness ==
    \E r \in Slots :
        /\ Traversing(r)
        /\ req[r].op = "fetchGroupHierarchyAbove"
        /\ Acyclic(group)
        /\ Height(group, req[r].arg.groupId) > 0
        /\ RecursiveSteps(r) = Height(group, req[r].arg.groupId)

\* C20: the step that ends an updateGroup request with an error response
\* leaves the parentGroupId and the groupName of the request's group as the
\* handler found them when it selected the row (the requests run one at a
\* time, so no other request wrote in between).
C20_FailedUpdateGroupChangesNothing ==
    [][\A r \in Slots :
          (/\ Running(r)
           /\ req[r].op = "updateGroup"
           /\ "existingGroupData" \in DOMAIN req[r]
           /\ req'[r].pc = "done"
           /\ req'[r].res.status # 200
           /\ req[r].arg.id \in DOMAIN group')
              => /\ group'[req[r].arg.id].parentGroupId =
                        req[r].existingGroupData.parentGroupId
                 /\ group'[req[r].arg.id].groupName =
                        req[r].existingGroupData.groupName]_vars

\* key is the entry of one person.
IsPersonKey(key) == StartsWith(key, person_id_)

\* C22: from the arrival of an updatePerson or deletePerson request for
\* person p until the next request arrives (the requests run one at a time,
\* so every command Redis executes in between is of that request's
\* invalidation), every entry person_id_<q> of another person q stays in the
\* cache as it is.
C22_OtherPersonEntriesKept ==
    [][\A r \in Slots :
          req[r].op \in {"updatePerson", "deletePerson"} =>
              \A key \in DOMAIN redis :
                  IsPersonKey(key) /\ key # PersonKey(req[r].arg.id) =>
                      /\ key \in DOMAIN redis'
                      /\ redis'[key] = redis[key]]_vars

\* The ids of the groups of a subtree result.
RECURSIVE IdsOf(_)
IdsOf(node) ==
    {node.id} \cup UNION {IdsOf(node.groups[i]) : i \in DOMAIN node.groups}

\* Some group id appears twice in a subtree result.
RECURSIVE Repeats(_)
Repeats(node) ==
    \/ \E i \in DOMAIN node.groups :
          node.id \in IdsOf(node.groups[i]) \/ Repeats(node.groups[i])
    \/ \E i, j \in DOMAIN node.groups :
          i # j /\ IdsOf(node.groups[i]) \cap IdsOf(node.groups[j]) # {}

\* C21: while groups are re-parented, every subtree that getGroups(id)
\* returns or stores is the traversal of the store at one moment; the parent
\* relation is acyclic at every moment here (no two writes overlap), so no
\* group id appears twice in a returned or stored subtree.
C21_NoGroupTwiceInSubtree ==
    /\ \A r \in Slots :
          SubtreeRead(r) /\ req[r].res.status = 200 => ~Repeats(req[r].res.body)
    /\ \A key \in DOMAIN redis :
          IsBelowKey(key) /\ ~IsError(JSONparse(redis[key].text))
              => ~Repeats(JSONparse(redis[key].text))

\* C10: for every id that has no group row, fetchAncestors(id) and
\* fetchSubtree(id, []) answer NotFound.
C10_AbsentGroupNotFound ==
    \A r \in Slots :
        /\ /\ Answered(r, {"fetchGroupHierarchyAbove"})
           /\ ~Failed(req[r])
           /\ req[r].arg.groupId \notin DOMAIN group
           => req[r].res.body = NotFound(req[r].arg.groupId)
        /\ /\ SubtreeRead(r)
           /\ ~Failed(req[r])
           /\ req[r].arg.filterCriteria = <<>>
           /\ req[r].arg.id \notin DOMAIN group
           => req[r].res.status = 404 /\ req[r].res.body = NotFound(req[r].arg.id)

=============================================================================
